---- MODULE Spec2Model ----
(***************************************************************************)
(* A model of tradingutility.cpp: the pricing formula                      *)
(* calculateDividendYield and the trade ledger StoreTrades with its        *)
(* operations recordTrade, getVolumeWeightedStockPrice and                 *)
(* calculateGeometricMean.                                                 *)
(*                                                                         *)
(* Modelling conventions                                                   *)
(*  - a C++ string is a sequence of one-character strings;                 *)
(*  - time_t is an integer number of seconds since 1970-01-01 00:00:00,    *)
(*    the local time zone is UTC;                                          *)
(*  - a double is an exact number: a quotient a/b is kept as the pair      *)
(*    (num, den) and pow(x, 1/n) as the pair (radicand, degree);           *)
(*  - a thrown exception is an outcome record without value fields.        *)
(***************************************************************************)
EXTENDS Integers, Sequences, FiniteSets, TLC

VARIABLES trades, now, ticks, lastOp, lastArgs, result, yieldCall

vars == <<trades, now, ticks, lastOp, lastArgs, result, yieldCall>>

(***************************************************************************)
(* Bounds of the model.                                                    *)
(***************************************************************************)
MaxTrades == 2
MaxMeanTrades == 3
MaxTicks == 2

(***************************************************************************)
(* Characters and strings.                                                 *)
(***************************************************************************)
DigitChars == <<"0", "1", "2", "3", "4", "5", "6", "7", "8", "9">>

IsDigit(c) == \E d \in 1..10 : DigitChars[d] = c

DigitVal(c) == (CHOOSE d \in 1..10 : DigitChars[d] = c) - 1

IsSpace(c) == c = " "

CharAt(s, pos) == IF pos <= Len(s) THEN s[pos] ELSE "NUL"

(***************************************************************************)
(* strptime(timeStamp, "%Y-%m-%d %H:%M:%S", &tm) on a zeroed struct tm.    *)
(* A conversion skips blanks, needs one digit, reads at most `width`       *)
(* digits while the value can still stay within `hi`, and fails when the   *)
(* value is out of range.  A blank in the format skips any blanks of the   *)
(* input, any other character must match.  The fields converted before a   *)
(* failure stay in tm.                                                     *)
(***************************************************************************)
ZeroTm == [tm_year |-> 0, tm_mon |-> 0, tm_mday |-> 0,
           tm_hour |-> 0, tm_min |-> 0, tm_sec |-> 0]

TimeFormat ==
  << [conv |-> "Y", lo |-> 0, hi |-> 9999, width |-> 4], [conv |-> "-"],
     [conv |-> "m", lo |-> 1, hi |-> 12, width |-> 2],   [conv |-> "-"],
     [conv |-> "d", lo |-> 1, hi |-> 31, width |-> 2],   [conv |-> " "],
     [conv |-> "H", lo |-> 0, hi |-> 23, width |-> 2],   [conv |-> ":"],
     [conv |-> "M", lo |-> 0, hi |-> 59, width |-> 2],   [conv |-> ":"],
     [conv |-> "S", lo |-> 0, hi |-> 61, width |-> 2] >>

RECURSIVE SkipSpaces(_, _)
SkipSpaces(s, pos) ==
  IF IsSpace(CharAt(s, pos)) THEN SkipSpaces(s, pos + 1) ELSE pos

RECURSIVE ReadDigits(_, _, _, _, _)
ReadDigits(s, pos, val, n, hi) ==
  IF n > 0 /\ val * 10 <= hi /\ IsDigit(CharAt(s, pos))
    THEN ReadDigits(s, pos + 1, val * 10 + DigitVal(s[pos]), n - 1, hi)
    ELSE [val |-> val, pos |-> pos]

get_number(s, pos0, lo, hi, width) ==
  LET pos == SkipSpaces(s, pos0)
  IN  IF ~IsDigit(CharAt(s, pos))
        THEN [ok |-> FALSE, val |-> 0, pos |-> pos]
        ELSE LET r == ReadDigits(s, pos + 1, DigitVal(s[pos]), width - 1, hi)
             IN  [ok |-> r.val >= lo /\ r.val <= hi, val |-> r.val, pos |-> r.pos]

StoreField(tm, conv, val) ==
  CASE conv = "Y" -> [tm EXCEPT !.tm_year = val - 1900]
    [] conv = "m" -> [tm EXCEPT !.tm_mon = val - 1]
    [] conv = "d" -> [tm EXCEPT !.tm_mday = val]
    [] conv = "H" -> [tm EXCEPT !.tm_hour = val]
    [] conv = "M" -> [tm EXCEPT !.tm_min = val]
    [] conv = "S" -> [tm EXCEPT !.tm_sec = val]

RECURSIVE strptimeFrom(_, _, _, _)
strptimeFrom(s, pos, fi, tm) ==
  IF fi > Len(TimeFormat) THEN [ok |-> TRUE, tm |-> tm]
  ELSE LET f == TimeFormat[fi]
       IN  IF f.conv = " "
             THEN strptimeFrom(s, SkipSpaces(s, pos), fi + 1, tm)
           ELSE IF f.conv \in {"-", ":"}
             THEN IF CharAt(s, pos) = f.conv
                    THEN strptimeFrom(s, pos + 1, fi + 1, tm)
                    ELSE [ok |-> FALSE, tm |-> tm]
           ELSE LET g == get_number(s, pos, f.lo, f.hi, f.width)
                IN  IF g.ok
                      THEN strptimeFrom(s, g.pos, fi + 1, StoreField(tm, f.conv, g.val))
                      ELSE [ok |-> FALSE, tm |-> tm]

strptime(s) == strptimeFrom(s, 1, 1, ZeroTm)

(***************************************************************************)
(* mktime(&tm): the broken-down time, normalised, as seconds since the     *)
(* epoch.  The day count is the days-from-civil computation on the         *)
(* March-based year.                                                       *)
(***************************************************************************)
DaysFromCivil(y0, m, d) ==
  LET y   == IF m <= 2 THEN y0 - 1 ELSE y0
      era == y \div 400
      yoe == y - era * 400
      mp  == IF m > 2 THEN m - 3 ELSE m + 9
      doy == (153 * mp + 2) \div 5 + d - 1
      doe == yoe * 365 + yoe \div 4 - yoe \div 100 + doy
  IN  era * 146097 + doe - 719468

mktime(tm) ==
  LET months == (tm.tm_year + 1900) * 12 + tm.tm_mon
      year   == months \div 12
      month  == (months % 12) + 1
      days   == DaysFromCivil(year, month, 1) + (tm.tm_mday - 1)
  IN  days * 86400 + tm.tm_hour * 3600 + tm.tm_min * 60 + tm.tm_sec

(***************************************************************************)
(* The values the operations are called with.                              *)
(***************************************************************************)
Chars2024_01_01 == <<"2", "0", "2", "4", "-", "0", "1", "-", "0", "1">>

\* "2024-01-01 10:00:00"
tsNow == Chars2024_01_01 \o <<" ", "1", "0", ":", "0", "0", ":", "0", "0">>

\* "2024-01-01 10:20:00"
tsFuture == Chars2024_01_01 \o <<" ", "1", "0", ":", "2", "0", ":", "0", "0">>

\* "2024-01-01 10:00", the seconds are missing
tsNoSeconds == Chars2024_01_01 \o <<" ", "1", "0", ":", "0", "0">>

TimeStamps == {tsNow, tsFuture, tsNoSeconds}

Quantities == {0, 1, 2}

Indicators == {"B"}

MeanIndicators == {"B", "S"}

Prices == {1, 100}

MeanPrices == {1, 10, 100}

\* the clock starts at 2024-01-01 09:59:59
ClockStart == 19723 * 86400 + 9 * 3600 + 59 * 60 + 59

ClockSteps == {1, 900}

\* flowing off the end of recordTrade leaves an indeterminate int as its value
IndeterminateInts == {0, 1}

(***************************************************************************)
(* multimap<time_t, Trade*> trades: a sequence of (key, trade) entries in  *)
(* ascending key order.  An entry owns its trade, so the pointer is        *)
(* modelled by the trade it points to.                                     *)
(***************************************************************************)
Trade(inputTimeStamp, inputQuantity, inputBuySellIndicator, inputPrice) ==
  [timeStampStr |-> inputTimeStamp, quantity |-> inputQuantity,
   buySellIndicator |-> inputBuySellIndicator, price |-> inputPrice]

\* index of the first entry whose key is not less than k, Len + 1 for end()
RECURSIVE lower_bound_from(_, _, _)
lower_bound_from(t, k, i) ==
  IF i > Len(t) \/ t[i].key >= k THEN i ELSE lower_bound_from(t, k, i + 1)

\* a lower bound that steps over the entries filed under k itself
lower_bound_strict(t, k) == lower_bound_from(t, k + 1, 1)

lower_bound(t, k) == lower_bound_from(t, k, 1)

\* index of the first entry whose key is greater than k, Len + 1 for end()
RECURSIVE upper_bound_from(_, _, _)
upper_bound_from(t, k, i) ==
  IF i > Len(t) \/ t[i].key > k THEN i ELSE upper_bound_from(t, k, i + 1)

upper_bound(t, k) == upper_bound_from(t, k, 1)

\* the insert of a map: a key that is present keeps its one entry
insert_unique(t, k, trade) ==
  IF \E i \in 1..Len(t) : t[i].key = k
    THEN t
    ELSE LET i == upper_bound(t, k)
         IN  SubSeq(t, 1, i - 1) \o <<[key |-> k, second |-> trade]>>
               \o SubSeq(t, i, Len(t))

\* an insert at the end, whatever the key
insert_back(t, k, trade) == Append(t, [key |-> k, second |-> trade])

\* multimap::insert: the entry goes after the entries with an equal key
insert(t, k, trade) ==
  LET i == upper_bound(t, k)
  IN  SubSeq(t, 1, i - 1) \o <<[key |-> k, second |-> trade]>> \o SubSeq(t, i, Len(t))

(***************************************************************************)
(* getVolumeWeightedStockPrice: the loop from lower_bound to end().        *)
(***************************************************************************)
FifteenMinutes == 15 * 60

NoTradesFound == [kind |-> "NoTradesFound"]

RECURSIVE AccumulateWindow(_, _, _, _)
AccumulateWindow(t, it, accumulatedQuantity, accumulatedPrice) ==
  IF it > Len(t)
    THEN [accumulatedQuantity |-> accumulatedQuantity,
          accumulatedPrice |-> accumulatedPrice]
    ELSE AccumulateWindow(t, it + 1,
           accumulatedQuantity + t[it].second.quantity,
           accumulatedPrice + t[it].second.quantity * t[it].second.price)

\* a query that fails only when the window holds no entry at all
VolumeWeightedStockPrice_EndCheck(t, currentTime) ==
  LET it == lower_bound(t, currentTime - FifteenMinutes)
      acc == AccumulateWindow(t, it, 0, 0)
  IN  IF it <= Len(t)
        THEN [kind |-> "value", num |-> acc.accumulatedPrice,
              den |-> acc.accumulatedQuantity]
        ELSE NoTradesFound

VolumeWeightedStockPrice(t, currentTime) ==
  LET fifteenMinutesBackTime == currentTime - FifteenMinutes
      acc == AccumulateWindow(t, lower_bound(t, fifteenMinutesBackTime), 0, 0)
  IN  IF acc.accumulatedQuantity # 0
        THEN [kind |-> "value", num |-> acc.accumulatedPrice,
              den |-> acc.accumulatedQuantity]
        ELSE NoTradesFound

(***************************************************************************)
(* calculateGeometricMean: the running product over the whole ledger and   *)
(* pow(accumulatedPrice, 1 / size).                                        *)
(***************************************************************************)
\* a running sum in place of the running product
RECURSIVE AccumulateProduct_Sum(_, _, _)
AccumulateProduct_Sum(t, it, accumulatedPrice) ==
  IF it > Len(t) THEN accumulatedPrice
  ELSE AccumulateProduct_Sum(t, it + 1, accumulatedPrice + t[it].second.price)

RECURSIVE AccumulateProduct(_, _, _)
AccumulateProduct(t, it, accumulatedPrice) ==
  IF it > Len(t) THEN accumulatedPrice
  ELSE AccumulateProduct(t, it + 1, accumulatedPrice * t[it].second.price)

\* a mean without the test for an empty ledger
GeometricMean_Unchecked(t) ==
  [kind |-> "value", radicand |-> AccumulateProduct(t, 1, 1), degree |-> Len(t)]

\* a mean over the entries of the last 15 minutes only
GeometricMean_Windowed(t) ==
  LET it == lower_bound(t, now - FifteenMinutes)
  IN  IF Len(t) # 0
        THEN [kind |-> "value", radicand |-> AccumulateProduct(t, it, 1),
              degree |-> Len(t) + 1 - it]
        ELSE NoTradesFound

GeometricMean(t) ==
  LET accumulatedPrice == AccumulateProduct(t, 1, 1)
  IN  IF Len(t) # 0
        THEN [kind |-> "value", radicand |-> accumulatedPrice, degree |-> Len(t)]
        ELSE NoTradesFound

(***************************************************************************)
(* calculateDividendYield.                                                 *)
(***************************************************************************)
COMMON == "Common"

PREFERRED == "Preferred"

\* a yield that takes the last dividend for both trade types
DividendYield_LastOnly(price, tradeType, lastDividend, fixedDividend, parValue) ==
  IF tradeType \in {COMMON, PREFERRED}
    THEN [kind |-> "value", num |-> lastDividend, den |-> price]
    ELSE [kind |-> "invalid_argument"]

DividendYield(price, tradeType, lastDividend, fixedDividend, parValue) ==
  IF tradeType = COMMON
    THEN [kind |-> "value", num |-> lastDividend, den |-> price]
  ELSE IF tradeType = PREFERRED
    THEN [kind |-> "value", num |-> fixedDividend * parValue, den |-> price]
  ELSE [kind |-> "invalid_argument"]

YieldPrices == {-1, 0, 1, 2, 4}

TradeTypes == {"Common", "Preferred", "common", "Ordinary"}

LastDividends == {0, 1, 8}

FixedDividends == {0, 2}

ParValues == {1, 100}

(***************************************************************************)
(* The state machine.                                                      *)
(***************************************************************************)
NoArgs == <<>>

NoResult == [kind |-> "none"]

Init ==
  /\ trades = <<>>
  /\ now = ClockStart
  /\ ticks = 0
  /\ lastOp = "idle"
  /\ lastArgs = NoArgs
  /\ result = NoResult
  /\ yieldCall = NoResult

RecordTradeFrom(timeStamps, quantities, indicators, prices, bound) ==
  /\ Len(trades) < bound
  /\ \E timeStamp \in timeStamps, quantity \in quantities,
        buySellIndicator \in indicators, price \in prices,
        status \in IndeterminateInts :
       LET trade == Trade(timeStamp, quantity, buySellIndicator, price)
           tradeTime == mktime(strptime(timeStamp).tm)
       IN  /\ trades' = insert(trades, tradeTime, trade)
           /\ lastArgs' = trade
           /\ result' = [kind |-> "returned", status |-> status]
  /\ lastOp' = "recordTrade"
  /\ UNCHANGED <<now, ticks, yieldCall>>

recordTrade == RecordTradeFrom(TimeStamps, Quantities, Indicators, Prices, MaxTrades)

\* recordTrade with trades that differ in their price only
recordPricedTrade ==
  RecordTradeFrom({tsNow, tsFuture}, {1}, MeanIndicators, MeanPrices, MaxMeanTrades)

\* a query that drops the entries it steps over
getVolumeWeightedStockPrice_Pruning ==
  /\ lastOp' = "getVolumeWeightedStockPrice"
  /\ lastArgs' = NoArgs
  /\ result' = VolumeWeightedStockPrice(trades, now)
  /\ trades' = SubSeq(trades, lower_bound(trades, now - FifteenMinutes), Len(trades))
  /\ UNCHANGED <<now, ticks, yieldCall>>

getVolumeWeightedStockPrice ==
  /\ lastOp' = "getVolumeWeightedStockPrice"
  /\ lastArgs' = NoArgs
  /\ result' = VolumeWeightedStockPrice(trades, now)
  /\ UNCHANGED <<trades, now, ticks, yieldCall>>

calculateGeometricMean ==
  /\ lastOp' = "calculateGeometricMean"
  /\ lastArgs' = NoArgs
  /\ result' = GeometricMean(trades)
  /\ UNCHANGED <<trades, now, ticks, yieldCall>>

\* the wall clock read by time() advances between two calls
Tick ==
  /\ ticks < MaxTicks
  /\ \E step \in ClockSteps : now' = now + step
  /\ ticks' = ticks + 1
  /\ lastOp' = "idle"
  /\ lastArgs' = NoArgs
  /\ result' = NoResult
  /\ UNCHANGED <<trades, yieldCall>>

calculateDividendYield ==
  /\ \E price \in YieldPrices, tradeType \in TradeTypes,
        lastDividend \in LastDividends, fixedDividend \in FixedDividends,
        parValue \in ParValues :
       yieldCall' = [price |-> price, tradeType |-> tradeType,
                     lastDividend |-> lastDividend,
                     fixedDividend |-> fixedDividend, parValue |-> parValue,
                     outcome |-> DividendYield(price, tradeType, lastDividend,
                                               fixedDividend, parValue)]
  /\ UNCHANGED <<trades, now, ticks, lastOp, lastArgs, result>>

Next ==
  \/ recordTrade
  \/ getVolumeWeightedStockPrice
  \/ calculateGeometricMean
  \/ Tick

Spec == Init /\ [][Next]_vars

NextMean ==
  \/ recordPricedTrade
  \/ getVolumeWeightedStockPrice
  \/ calculateGeometricMean
  \/ Tick

SpecMean == Init /\ [][NextMean]_vars

NextYield == calculateDividendYield

SpecYield == Init /\ [][NextYield]_vars

(***************************************************************************)
(* What the properties speak about: the calendar time a timestamp names,   *)
(* read off the text position by position, and sums and products over a    *)
(* set of ledger positions.                                                *)
(***************************************************************************)
TwoDigits(s, i) == DigitVal(s[i]) * 10 + DigitVal(s[i + 1])

FourDigits(s, i) == TwoDigits(s, i) * 100 + TwoDigits(s, i + 2)

IsLeapYear(y) == (y % 4 = 0 /\ y % 100 # 0) \/ y % 400 = 0

DaysInMonth(y, m) ==
  IF m = 2 THEN (IF IsLeapYear(y) THEN 29 ELSE 28)
  ELSE IF m \in {4, 6, 9, 11} THEN 30 ELSE 31

\* YYYY-MM-DD HH:MM:SS, the fields naming a date and a time of day
MatchesPattern(s) ==
  /\ Len(s) = 19
  /\ \A i \in {1, 2, 3, 4, 6, 7, 9, 10, 12, 13, 15, 16, 18, 19} : IsDigit(s[i])
  /\ s[5] = "-" /\ s[8] = "-" /\ s[11] = " " /\ s[14] = ":" /\ s[17] = ":"
  /\ TwoDigits(s, 6) \in 1..12
  /\ TwoDigits(s, 9) \in 1..DaysInMonth(FourDigits(s, 1), TwoDigits(s, 6))
  /\ TwoDigits(s, 12) \in 0..23
  /\ TwoDigits(s, 15) \in 0..59
  /\ TwoDigits(s, 18) \in 0..59

LeapDaysBefore(y) == (y - 1) \div 4 - (y - 1) \div 100 + (y - 1) \div 400

DaysBeforeMonth == <<0, 31, 59, 90, 120, 151, 181, 212, 243, 273, 304, 334>>

CalendarSeconds(s) ==
  LET y == FourDigits(s, 1)
      m == TwoDigits(s, 6)
      d == TwoDigits(s, 9)
      days == (y - 1970) * 365 + LeapDaysBefore(y) - LeapDaysBefore(1970)
                + DaysBeforeMonth[m]
                + (IF m > 2 /\ IsLeapYear(y) THEN 1 ELSE 0) + d - 1
  IN  days * 86400 + TwoDigits(s, 12) * 3600 + TwoDigits(s, 15) * 60
        + TwoDigits(s, 18)

\* the time of a ledger entry: the time its timestamp names, and the key it
\* was filed under when the timestamp names none
TimeOf(e) ==
  IF MatchesPattern(e.second.timeStampStr)
    THEN CalendarSeconds(e.second.timeStampStr)
    ELSE e.key

Qualifying(t, time) == {i \in 1..Len(t) : TimeOf(t[i]) >= time - 15 * 60}

RECURSIVE SumQuantity(_, _)
SumQuantity(t, S) ==
  IF S = {} THEN 0
  ELSE LET i == CHOOSE j \in S : TRUE
       IN  t[i].second.quantity + SumQuantity(t, S \ {i})

RECURSIVE SumQuantityPrice(_, _)
SumQuantityPrice(t, S) ==
  IF S = {} THEN 0
  ELSE LET i == CHOOSE j \in S : TRUE
       IN  t[i].second.quantity * t[i].second.price + SumQuantityPrice(t, S \ {i})

RECURSIVE ProductPrice(_, _)
ProductPrice(t, S) ==
  IF S = {} THEN 1
  ELSE LET i == CHOOSE j \in S : TRUE
       IN  t[i].second.price * ProductPrice(t, S \ {i})

RECURSIVE Power(_, _)
Power(x, n) == IF n = 0 THEN 1 ELSE x * Power(x, n - 1)

PricesOf(t) == [i \in 1..Len(t) |-> t[i].second.price]

Threw(res) == res = [kind |-> "NoTradesFound"]

\* res is the quotient a / b
IsQuotient(res, a, b) ==
  /\ res.kind = "value"
  /\ DOMAIN res = {"kind", "num", "den"}
  /\ res.den # 0 /\ b # 0
  /\ res.num * b = a * res.den

\* res is the n-th root of x
IsRoot(res, x, n) ==
  /\ res.kind = "value"
  /\ DOMAIN res = {"kind", "radicand", "degree"}
  /\ res.degree = n
  /\ res.radicand = x

(***************************************************************************)
(* C1.  When the quantities of the records whose timestamp is at or after  *)
(* now - 15 minutes sum to a non-zero value, getVolumeWeightedStockPrice   *)
(* returns the sum of quantity * price over the sum of quantity of exactly *)
(* those records: the record stamped at now - 15 minutes and the records   *)
(* stamped after now count, the records stamped before now - 15 minutes    *)
(* do not.                                                                 *)
(***************************************************************************)
C1_VolumeWeightedOverWindow ==
  LET W == Qualifying(trades, now)
  IN  (lastOp = "getVolumeWeightedStockPrice" /\ SumQuantity(trades, W) # 0)
        => IsQuotient(result, SumQuantityPrice(trades, W), SumQuantity(trades, W))

\* a query that found one record stamped exactly 15 minutes ago and one
\* stamped in the future, of different quantity and price
C1_Witness ==
  /\ lastOp = "getVolumeWeightedStockPrice"
  /\ Len(trades) = 2
  /\ TimeOf(trades[1]) = now - 15 * 60
  /\ TimeOf(trades[2]) > now
  /\ trades[1].second.quantity = 1 /\ trades[1].second.price = 1
  /\ trades[2].second.quantity = 2 /\ trades[2].second.price = 100
  /\ result = [kind |-> "value", num |-> 201, den |-> 3]

(***************************************************************************)
(* C2.  On a ledger on which no trade was ever recorded both queries fail  *)
(* with NoTradesFound and return no value, whatever the time.              *)
(***************************************************************************)
C2_EmptyLedgerThrows ==
  (trades = <<>> /\ lastOp \in {"getVolumeWeightedStockPrice", "calculateGeometricMean"})
    => Threw(result)

C2_Witness ==
  /\ trades = <<>>
  /\ lastOp = "calculateGeometricMean"
  /\ now > ClockStart
  /\ Threw(result)

(***************************************************************************)
(* C3.  When every record of a non-empty ledger is stamped before          *)
(* now - 15 minutes, getVolumeWeightedStockPrice fails with NoTradesFound  *)
(* while calculateGeometricMean succeeds with the root over all N records. *)
(***************************************************************************)
AllOld == trades # <<>> /\ Qualifying(trades, now) = {}

C3_OldTradesLeaveWindowOnly ==
  AllOld =>
    /\ lastOp = "getVolumeWeightedStockPrice" => Threw(result)
    /\ lastOp = "calculateGeometricMean"
         => IsRoot(result, ProductPrice(trades, 1..Len(trades)), Len(trades))

\* the clock went more than 15 minutes past the latest of two trades
C3_Witness ==
  /\ AllOld
  /\ Len(trades) = 2
  /\ ticks = 2
  /\ lastOp = "calculateGeometricMean"
  /\ result = [kind |-> "value", radicand |-> 100, degree |-> 2]

(***************************************************************************)
(* C4.  getVolumeWeightedStockPrice fails with NoTradesFound, returning    *)
(* no value, exactly when the quantities of the qualifying records sum to  *)
(* zero, and returns a quotient with a non-zero divisor otherwise.         *)
(***************************************************************************)
C4_ThrowsIffZeroQuantity ==
  LET sum == SumQuantity(trades, Qualifying(trades, now))
  IN  lastOp = "getVolumeWeightedStockPrice" =>
        /\ sum = 0 => Threw(result)
        /\ sum # 0 => (result.kind = "value" /\ result.den # 0)

\* qualifying records, all of quantity zero
C4_Witness ==
  /\ lastOp = "getVolumeWeightedStockPrice"
  /\ Qualifying(trades, now) = {1, 2}
  /\ \A i \in {1, 2} : trades[i].second.quantity = 0 /\ trades[i].second.price = 100
  /\ Threw(result)

(***************************************************************************)
(* C5.  A recorded trade is visible at once: right after recordTrade the   *)
(* ledger holds the record, a getVolumeWeightedStockPrice made while the   *)
(* record's timestamp is at or after now - 15 minutes has its quantity and *)
(* quantity * price in its sums, and a calculateGeometricMean has its      *)
(* price in its product.                                                   *)
(***************************************************************************)
InVolumeWeighted(res, t, time, i) ==
  LET others == Qualifying(t, time) \ {i}
      q == t[i].second.quantity
      p == t[i].second.price
  IN  IF res.kind = "value"
        THEN /\ res.den = q + SumQuantity(t, others)
             /\ res.num = q * p + SumQuantityPrice(t, others)
        ELSE q + SumQuantity(t, others) = 0

InGeometricMean(res, t, i) ==
  LET others == (1..Len(t)) \ {i}
  IN  /\ res.kind = "value"
      /\ res.radicand = t[i].second.price * ProductPrice(t, others)
      /\ res.degree = 1 + Cardinality(others)

C5_RecordedTradeVisible ==
  /\ lastOp = "recordTrade" =>
       \E i \in 1..Len(trades) :
         /\ trades[i].second = lastArgs
         /\ i \in Qualifying(trades, now)
              => InVolumeWeighted(VolumeWeightedStockPrice(trades, now), trades, now, i)
         /\ InGeometricMean(GeometricMean(trades), trades, i)
  /\ lastOp = "getVolumeWeightedStockPrice" =>
       \A i \in Qualifying(trades, now) : InVolumeWeighted(result, trades, now, i)
  /\ lastOp = "calculateGeometricMean" =>
       \A i \in 1..Len(trades) : InGeometricMean(result, trades, i)

\* a second trade, stamped with the current time, was just recorded
C5_Witness ==
  /\ lastOp = "recordTrade"
  /\ Len(trades) = 2
  /\ lastArgs = Trade(tsNow, 2, "B", 100)
  /\ trades[1].second = Trade(tsNow, 1, "B", 1)
  /\ trades[2].second = lastArgs
  /\ CalendarSeconds(lastArgs.timeStampStr) = now
  /\ VolumeWeightedStockPrice(trades, now) = [kind |-> "value", num |-> 201, den |-> 3]

(***************************************************************************)
(* C6.  The two queries read only: a step of getVolumeWeightedStockPrice   *)
(* or calculateGeometricMean, returning or failing, leaves the records of  *)
(* the ledger and their order as they were, so that the same query at the  *)
(* same time would give the same outcome again.                            *)
(***************************************************************************)
QueryStep ==
  lastOp' \in {"getVolumeWeightedStockPrice", "calculateGeometricMean"}

C6_QueriesReadOnly ==
  [][QueryStep =>
       /\ trades' = trades
       /\ now' = now
       /\ lastOp' = "getVolumeWeightedStockPrice"
            => VolumeWeightedStockPrice(trades', now') = result'
       /\ lastOp' = "calculateGeometricMean"
            => GeometricMean(trades') = result']_vars

\* a failed query on a ledger of two old records
C6_Witness ==
  /\ lastOp = "getVolumeWeightedStockPrice"
  /\ Len(trades) = 2
  /\ AllOld
  /\ Threw(result)

(***************************************************************************)
(* C7.  The ledger is always sorted ascending by timestamp and only grows: *)
(* a recordTrade adds exactly one record, also next to records of the same *)
(* timestamp, and no step removes a record or changes the timestamp,       *)
(* quantity, side or price of one.                                         *)
(***************************************************************************)
Sorted(t) == \A i, j \in 1..Len(t) : i < j => TimeOf(t[i]) <= TimeOf(t[j])

WithoutEntry(t, i) == SubSeq(t, 1, i - 1) \o SubSeq(t, i + 1, Len(t))

AddsOneRecord ==
  /\ Len(trades') = Len(trades) + 1
  /\ \E i \in 1..Len(trades') :
       /\ trades'[i].second = lastArgs'
       /\ WithoutEntry(trades', i) = trades

C7_SortedAppendOnly ==
  /\ []Sorted(trades)
  /\ [][IF lastOp' = "recordTrade" THEN AddsOneRecord ELSE trades' = trades]_vars

\* a second record of the same timestamp was just recorded, and both are kept
C7_Witness ==
  /\ Len(trades) = 2
  /\ lastOp = "recordTrade"
  /\ trades[2].second = lastArgs
  /\ trades[1].second = Trade(tsNow, 1, "B", 1)
  /\ trades[2].second = Trade(tsNow, 2, "B", 100)
  /\ trades[1].key = trades[2].key

(***************************************************************************)
(* C8.  recordTrade with a timestamp that does not match                   *)
(* YYYY-MM-DD HH:MM:SS fails with MalformedTimestamp and leaves the ledger *)
(* unchanged.                                                              *)
(***************************************************************************)
C8_MalformedTimestampRejected ==
  [][(lastOp' = "recordTrade" /\ ~MatchesPattern(lastArgs'.timeStampStr))
       => (trades' = trades /\ result'.kind = "MalformedTimestamp")]_vars

(***************************************************************************)
(* C9.  On a ledger of N >= 1 records calculateGeometricMean returns the   *)
(* N-th root of the product of the prices of all N records, whatever       *)
(* their timestamps and the time: 100 for the prices 100, 100, 100 and 10  *)
(* for the prices 1, 100.                                                  *)
(***************************************************************************)
C9_GeometricMeanOverAll ==
  (lastOp = "calculateGeometricMean" /\ Len(trades) >= 1) =>
    /\ IsRoot(result, ProductPrice(trades, 1..Len(trades)), Len(trades))
    /\ PricesOf(trades) = <<100, 100, 100>>
         => Power(100, result.degree) = result.radicand
    /\ PricesOf(trades) \in {<<1, 100>>, <<100, 1>>}
         => Power(10, result.degree) = result.radicand

\* the mean of 100, 100, 100, one of the records being older than 15 minutes
C9_Witness ==
  /\ lastOp = "calculateGeometricMean"
  /\ PricesOf(trades) = <<100, 100, 100>>
  /\ Qualifying(trades, now) = {3}
  /\ result = [kind |-> "value", radicand |-> 1000000, degree |-> 3]

(***************************************************************************)
(* C10.  For a price other than zero calculateDividendYield returns        *)
(* lastDividend / price for the trade type Common,                         *)
(* fixedDividend * parValue / price for Preferred, and fails with an       *)
(* invalid trade type, returning no value, for every other trade type.     *)
(***************************************************************************)
C10_DividendYield ==
  (yieldCall # NoResult /\ yieldCall.price # 0) =>
    LET c == yieldCall
    IN  /\ c.tradeType = "Common"
             => IsQuotient(c.outcome, c.lastDividend, c.price)
        /\ c.tradeType = "Preferred"
             => IsQuotient(c.outcome, c.fixedDividend * c.parValue, c.price)
        /\ c.tradeType \notin {"Common", "Preferred"}
             => c.outcome = [kind |-> "invalid_argument"]

C10_Witness ==
  /\ yieldCall # NoResult
  /\ yieldCall.tradeType = "Preferred"
  /\ yieldCall.price = 4 /\ yieldCall.lastDividend = 8
  /\ yieldCall.fixedDividend = 2 /\ yieldCall.parValue = 100
  /\ yieldCall.outcome = [kind |-> "value", num |-> 200, den |-> 4]

====
